---------------------------- MODULE Spec2Model ----------------------------
(***************************************************************************)
(* easy_file: File(pathlib.Path) with atomic writes (dump_json, dump_yaml, *)
(* atomic_write) and asyncio.to_thread wrappers.                           *)
(*                                                                         *)
(* Part 1 (Spec): the atomic-write protocol of _atomic_write_bytes and     *)
(* atomic_write, run by concurrent writer threads against one directory,   *)
(* with a concurrent reader of the target and a process kill.              *)
(***************************************************************************)
EXTENDS Integers, Sequences, FiniteSets, TLC

(* ------------------------------ bounds -------------------------------- *)
\* longest payload, in bytes
MaxLen == 2
\* how many distinct '.<name>.<suffix>' names the directory can hold
NSuffix == 2

(* --------------------------- the file system --------------------------- *)
\* threads of the process that each make one atomic-write call
Writers == {"w1", "w2"}
\* the byte a writer's payload is made of (so that mixtures are visible)
ByteOf(w) == IF w = "w1" THEN 1 ELSE 2
\* the payloads a writer may pass: its byte, repeated 0..MaxLen times
Payloads(w) == {[i \in 1..n |-> ByteOf(w)] : n \in 0..MaxLen}
\* content of the target before any call, when it exists
OldContent == <<0, 0>>

\* the paths a call can name: the target and the temporary names, which are
\* entries of self.parent, and a name in the system's temporary directory
Target == 0
TmpNames == 1..NSuffix
Elsewhere == -2
Names == {Target} \cup TmpNames \cup {Elsewhere}
\* the directory a path lies in, and its file name
DirOf(n) == IF n = Elsewhere THEN "tempfile.gettempdir()" ELSE "self.parent"
NameOf(n) ==
    CASE n = Target -> <<"self.name">>
      [] n \in TmpNames -> <<".", "self.name", ".", ToString(n)>>
      [] OTHER -> <<"tmp", ToString(n)>>
\* tmp_path = None
NoPath == -1
\* inodes: the target's original file and one file per writer's temp file
NoIno == "none"
Inodes == {"old"} \cup Writers

VARIABLES
    parent,     \* whether the directory self.parent exists
    dir,        \* Names -> inode or NoIno: the directory entries
    disk,       \* inode -> bytes the OS holds for the file (Unalloc: no such file)
    synced,     \* inodes whose content was forced to stable storage (fsync)
    alive,      \* the writing process has not been killed
    pc,         \* writer -> its position in the call
    mode,       \* writer -> "buffer" (_atomic_write_bytes) or "scoped" (atomic_write)
    data,       \* writer -> the payload of its call
    wrote,      \* writer -> how many bytes of data it wrote to the stream
    tmp_path,   \* writer -> the local tmp_path (NoPath for None)
    fd,         \* writer -> the inode tmp_file has open (NoIno when closed)
    err,        \* writer -> the exception in flight / raised to the caller
    rm,         \* writer -> outcome of the clean-up's os.remove / unlink
    rpc,        \* the reader's position
    rfd,        \* the inode the reader has open
    observed,   \* what the reader's last read of the target returned
    \* --- the asyncio side (SpecAsync) ---
    batch,      \* the operations are the children of one read_many_async call
    ops,        \* the submitted operations, in submission order
    afile,      \* path -> text of the file, or Missing
    work,       \* operation -> state of its blocking call in the executor
    wait,       \* operation -> state of the coroutine awaiting it
    aresult,    \* operation -> outcome of its blocking call
    got,        \* operation -> what its awaiting coroutine received
    queue,      \* the executor's work queue (FIFO)
    busy,       \* worker threads running a call
    gres,       \* gather: the children's results, by position
    nfinished,  \* gather: how many children have finished
    gstate,     \* gather: "pending", "returned", "raised" or "cancelled"
    gout,       \* what read_many_async returned or raised
    \* --- the codec side (SpecCodec) ---
    cin,        \* the value the caller passes to its dumps
    cfile,      \* the text of the file at the path, or NoFile
    cfmt,       \* the format the file's text was last dumped in ("none": not dumped)
    cdata,      \* the value passed to the dump that wrote the file
    cres,       \* what the last call returned or raised
    \* --- plain byte writes and reads (SpecBytes) ---
    bfile,      \* the bytes of the file at the path, or absent
    btmp,       \* the bytes of atomic_write's temporary file, or absent
    bpc,        \* position of the write-then-read program
    bhow,       \* how the buffer is written
    bbuf,       \* the buffer passed to the write
    bpos,       \* how many bytes of the buffer reached the open file
    bgot,       \* what the last read returned
    bmode,      \* the mode the written file is opened with
    bold,       \* the file at the path before the write
    \* --- appends, moves and text reads (SpecFiles) ---
    fs,         \* place -> what is there: nothing, a directory or a file's bytes
    fpre,       \* fs before the last call
    flocale,    \* the encoding of the process's locale
    fcall,      \* the last call with what it returned or raised
    fbase,      \* the file at self before the current run of append_text calls
    flog,       \* the texts of that run, in call order
    fn          \* how many calls were made

wvars == <<parent, dir, disk, synced, alive, pc, mode, data, wrote, tmp_path,
           fd, err, rm>>
rvars == <<rpc, rfd, observed>>
avars == <<batch, ops, afile, work, wait, aresult, got, queue, busy, gres,
           nfinished, gstate, gout>>
cvars == <<cin, cfile, cfmt, cdata, cres>>
bvars == <<bfile, btmp, bpc, bhow, bbuf, bpos, bgot, bmode, bold>>
fvars == <<fs, fpre, flocale, fcall, fbase, flog, fn>>
xvars == <<cvars, bvars, fvars>>
vars == <<wvars, rvars, avars, xvars>>

\* a reader's view of a path: absent, or the bytes of its file
Absent == [exists |-> FALSE, bytes |-> <<>>]
Content(b) == [exists |-> TRUE, bytes |-> b]
NotRead == [exists |-> FALSE, bytes |-> <<-1>>]
View(n) == IF dir[n] = NoIno THEN Absent ELSE Content(disk[dir[n]])
TargetView == View(Target)
\* what the target was before any call: the inode "old" is allocated iff it existed
Unalloc == <<-1>>
InitialView == IF disk["old"] = Unalloc THEN Absent ELSE Content(OldContent)

NoErr == [at |-> "", kind |-> "none"]
FaultKinds == {"Exception", "BaseException"}

(* -------------------------- the asyncio side --------------------------- *)
\* most operations submitted at once
MaxN == 3
\* threads of the default executor behind asyncio.to_thread
PoolSize == 2

Paths == {"a", "b"}
Missing == "<missing>"
\* text of each file when it exists
TextOf(p) == IF p = "a" THEN "A" ELSE "B"
\* text dump_json_async leaves in its file
Dumped == "D"
NoRes == "-"
NotFound == "FileNotFoundError"
Tasks == 1..MaxN
\* the children of read_many_async: read_text_async(p)
ReadOps == {[kind |-> "read", path |-> p] : p \in Paths}
\* operations awaited on their own: read_text_async and dump_json_async on "a"
AllOps == {[kind |-> k, path |-> "a"] : k \in {"read", "dump"}}
SeqsUpTo(S, n) == UNION {[1..k -> S] : k \in 0..n}

(* --------------------------- the codec side ---------------------------- *)
\* largest indent passed to dump_json
MaxIndent == 3

\* a Python value: scalars carry their type and lexeme, a list its items, a
\* dict its keys (in insertion order) and, in 'items', the values under them
Scalar(t, s) == [t |-> t, s |-> s, keys |-> <<>>, items |-> <<>>]
PyNone == Scalar("null", "")
PyBool(s) == Scalar("bool", s)
PyInt(s) == Scalar("int", s)
PyFloat(s) == Scalar("float", s)
PyStr(s) == Scalar("str", s)
PyList(items) == [t |-> "list", s |-> "", keys |-> <<>>, items |-> items]
PyDict(keys, items) == [t |-> "dict", s |-> "", keys |-> keys, items |-> items]
\* an instance of a class no encoder knows (object())
PyObject == Scalar("object", "")
\* no value (the call raised, or nothing was called)
NoVal == Scalar("none", "")

\* the text of a file, as the tokens the parsers see: punctuation, quoted
\* strings, bare literals, YAML structure marks, newlines and runs of n spaces
Punct(s) == [k |-> "p", s |-> s, n |-> 0]
Quoted(s) == [k |-> "s", s |-> s, n |-> 0]
Bare(s) == [k |-> "l", s |-> s, n |-> 0]
Mark(s) == [k |-> "m", s |-> s, n |-> 0]
Newline == [k |-> "nl", s |-> "", n |-> 0]
Spaces(n) == [k |-> "sp", s |-> "", n |-> n]

\* the path's file: absent, or a regular file holding a text
NoFile == [exists |-> FALSE, text |-> <<>>]
FileOf(text) == [exists |-> TRUE, text |-> text]
\* '{bad json' and, in YAML's block/flow structure, 'invalid: [yaml'
BadJson == <<Punct("{"), Bare("bad"), Bare("json")>>
BadYaml == <<Mark("+map"), Bare("invalid"), Mark("+seq"), Bare("yaml")>>

\* str(self)
FilePath == "dir/data.ext"
\* nothing was called yet
NoCall ==
    [op |-> "none", fmt |-> "none", via |-> "sync", typed |-> FALSE, given |-> FALSE, indent |-> 0,
     arg |-> NoVal,
     exc |-> "none", cause |-> "none", msg |-> <<>>, val |-> NoVal]

\* no codec call is in play
CodecIdle ==
    /\ cin = NoVal
    /\ cfile = NoFile
    /\ cfmt = "none"
    /\ cdata = NoVal
    /\ cres = NoCall

\* no plain write or read is in play
BytesIdle ==
    /\ bfile = Absent
    /\ btmp = Absent
    /\ bpc = "idle"
    /\ bhow = "none"
    /\ bbuf = <<>>
    /\ bpos = 0
    /\ bgot = NotRead
    /\ bmode = "none"
    /\ bold = Absent

\* the places of the second model: self ("s"), another path ("t"), their
\* parent directories, and the entry named like self inside "t"
Places == {"s.parent", "s", "t.parent", "t", "t/s"}
\* a directory is at the place
Dir == [exists |-> TRUE, bytes |-> <<-2>>]
\* what a call returns: None, a str, bytes or the File of a path
Ret(kind, text, bytes) == [kind |-> kind, text |-> text, bytes |-> bytes]
NoPlainCall ==
    [op |-> "none", via |-> "", target |-> "", exc |-> "", ret |-> Ret("", <<>>, <<>>)]
\* no append, move or text read is in play
FilesIdle ==
    /\ fs = [p \in Places |-> Absent]
    /\ fpre = fs
    /\ flocale = "utf-8"
    /\ fcall = NoPlainCall
    /\ fbase = Absent
    /\ flog = <<>>
    /\ fn = 0

\* no asyncio operation is in play
AsyncIdle ==
    /\ batch = FALSE
    /\ ops = <<>>
    /\ afile = [p \in Paths |-> Missing]
    /\ work = [i \in Tasks |-> "none"]
    /\ wait = [i \in Tasks |-> "none"]
    /\ aresult = [i \in Tasks |-> NoRes]
    /\ got = [i \in Tasks |-> NoRes]
    /\ queue = <<>>
    /\ busy = 0
    /\ gres = [i \in Tasks |-> NoRes]
    /\ nfinished = 0
    /\ gstate = "none"
    /\ gout = <<>>

\* no atomic write and no reader is in play
WriterIdle ==
    /\ parent = TRUE
    /\ dir = [n \in Names |-> NoIno]
    /\ disk = [i \in Inodes |-> Unalloc]
    /\ synced = {}
    /\ alive = TRUE
    /\ pc = [w \in Writers |-> "idle"]
    /\ mode = [w \in Writers |-> "none"]
    /\ data = [w \in Writers |-> <<>>]
    /\ wrote = [w \in Writers |-> 0]
    /\ tmp_path = [w \in Writers |-> NoPath]
    /\ fd = [w \in Writers |-> NoIno]
    /\ err = [w \in Writers |-> NoErr]
    /\ rm = [w \in Writers |-> "none"]
    /\ rpc = "idle"
    /\ rfd = NoIno
    /\ observed = NotRead

Init ==
    /\ parent \in BOOLEAN
    /\ \E had \in BOOLEAN :
         /\ (had => parent)
         /\ dir = [n \in Names |-> IF n = Target /\ had THEN "old" ELSE NoIno]
         /\ disk = [i \in Inodes |-> IF i = "old" /\ had THEN OldContent ELSE Unalloc]
    /\ synced = {}
    /\ alive = TRUE
    /\ pc = [w \in Writers |-> "idle"]
    /\ mode = [w \in Writers |-> "none"]
    /\ data = [w \in Writers |-> <<>>]
    /\ wrote = [w \in Writers |-> 0]
    /\ tmp_path = [w \in Writers |-> NoPath]
    /\ fd = [w \in Writers |-> NoIno]
    /\ err = [w \in Writers |-> NoErr]
    /\ rm = [w \in Writers |-> "none"]
    /\ rpc = "idle"
    /\ rfd = NoIno
    /\ observed = NotRead
    /\ AsyncIdle
    /\ CodecIdle
    /\ BytesIdle
    /\ FilesIdle

(* ------------------------- the atomic write ---------------------------- *)
\* the call is made: dump_json / dump_yaml hand their encoded bytes to
\* _atomic_write_bytes ("buffer"); atomic_write ("scoped") first checks its
\* arguments and raises ValueError for an encoding given with a binary mode
Call(w) ==
    /\ alive /\ pc[w] = "idle"
    /\ \E m \in {"buffer", "scoped"}, d \in Payloads(w), badargs \in BOOLEAN :
         /\ (badargs => m = "scoped")
         /\ mode' = [mode EXCEPT ![w] = m]
         /\ data' = [data EXCEPT ![w] = d]
         /\ IF badargs
              THEN /\ pc' = [pc EXCEPT ![w] = "raised"]
                   /\ err' = [err EXCEPT ![w] = [at |-> "args", kind |-> "Exception"]]
              ELSE /\ pc' = [pc EXCEPT ![w] = "mkdir"]
                   /\ err' = err
    /\ UNCHANGED <<parent, dir, disk, synced, alive, wrote, tmp_path, fd, rm, rvars, avars, xvars>>

\* self.parent.mkdir(parents=True, exist_ok=True)
Mkdir(w) ==
    /\ alive /\ pc[w] = "mkdir"
    /\ parent' = TRUE
    /\ pc' = [pc EXCEPT ![w] = "create"]
    /\ UNCHANGED <<dir, disk, synced, alive, mode, data, wrote, tmp_path, fd, err, rm, rvars, avars, xvars>>

\* mutant: the payload is written to the target path itself
InPlaceNames == {Target}
\* mutant: the temporary file is made without dir=, in the system's directory
SystemTempNames == {Elsewhere}
\* the names NamedTemporaryFile(dir=self.parent, prefix=f".{self.name}.") may take
StagingNames == TmpNames
\* mutant: a fixed temporary name, taken whether or not it exists
AnyName(n) == TRUE
\* tempfile creates with O_EXCL and tries another name when one is taken
FreshName(n) == dir[n] = NoIno
\* mutant: the rename is done before the payload is written
RenameFirst(w) == "replace"
\* the step after the temporary file was created
AfterCreate(w) == IF mode[w] = "buffer" THEN "write" ELSE "body"

\* with tempfile.NamedTemporaryFile(..., delete=False) as tmp_file; tmp_path = tmp_file.name
CreateTemp(w) ==
    /\ alive /\ pc[w] = "create"
    /\ \E n \in StagingNames :
         /\ FreshName(n)
         /\ dir' = [dir EXCEPT ![n] = w]
         /\ tmp_path' = [tmp_path EXCEPT ![w] = n]
    /\ disk' = [disk EXCEPT ![w] = <<>>]
    /\ fd' = [fd EXCEPT ![w] = w]
    /\ pc' = [pc EXCEPT ![w] = AfterCreate(w)]
    /\ UNCHANGED <<parent, synced, alive, mode, data, wrote, err, rm, rvars, avars, xvars>>

\* the bytes of data[w] from position wrote[w]+1, k of them
Chunk(w, k) == SubSeq(data[w], wrote[w] + 1, wrote[w] + k)
Remaining(w) == Len(data[w]) - wrote[w]

\* tmp_file.write(data); tmp_file.flush(): the bytes reach the file in chunks
Write(w) ==
    /\ alive /\ pc[w] = "write"
    /\ \E k \in 0..Remaining(w) :
         /\ (k = 0 => Remaining(w) = 0)
         /\ disk' = [disk EXCEPT ![fd[w]] = @ \o Chunk(w, k)]
         /\ wrote' = [wrote EXCEPT ![w] = @ + k]
         /\ pc' = [pc EXCEPT ![w] = IF k = Remaining(w) THEN "fsync" ELSE "write"]
    /\ UNCHANGED <<parent, dir, synced, alive, mode, data, tmp_path, fd, err, rm, rvars, avars, xvars>>

\* mutant: the fsync is left out
NotFsynced(w) == synced
\* the files on stable storage once os.fsync(tmp_file.fileno()) returns
Fsynced(w) == synced \cup {fd[w]}

\* os.fsync(tmp_file.fileno())
Fsync(w) ==
    /\ alive /\ pc[w] = "fsync"
    /\ synced' = Fsynced(w)
    /\ pc' = [pc EXCEPT ![w] = "close"]
    /\ UNCHANGED <<parent, dir, disk, alive, mode, data, wrote, tmp_path, fd, err, rm, rvars, avars, xvars>>

\* the caller's with-body writes to the yielded stream
BodyWrite(w) ==
    /\ alive /\ pc[w] = "body"
    /\ \E k \in 1..Remaining(w) :
         /\ disk' = [disk EXCEPT ![fd[w]] = @ \o Chunk(w, k)]
         /\ wrote' = [wrote EXCEPT ![w] = @ + k]
    /\ UNCHANGED <<parent, dir, synced, alive, pc, mode, data, tmp_path, fd, err, rm, rvars, avars, xvars>>

\* the with-body ends without raising, by reaching its end or by an early
\* return: either way the generator resumes after the yield
BodyExit(w) ==
    /\ alive /\ pc[w] = "body"
    /\ Remaining(w) = 0
    /\ \E how \in {"end", "return"} :
         pc' = [pc EXCEPT ![w] = "flush"]
    /\ UNCHANGED <<parent, dir, disk, synced, alive, mode, data, wrote, tmp_path, fd, err, rm, rvars, avars, xvars>>

\* tmp_file.flush() after the yield: the stream's buffer, no fsync
Flush(w) ==
    /\ alive /\ pc[w] = "flush"
    /\ pc' = [pc EXCEPT ![w] = "close"]
    /\ UNCHANGED <<parent, dir, disk, synced, alive, mode, data, wrote, tmp_path, fd, err, rm, rvars, avars, xvars>>

\* tmp_file.close()
Close(w) ==
    /\ alive /\ pc[w] = "close"
    /\ fd' = [fd EXCEPT ![w] = NoIno]
    /\ pc' = [pc EXCEPT ![w] = "replace"]
    /\ UNCHANGED <<parent, dir, disk, synced, alive, mode, data, wrote, tmp_path, err, rm, rvars, avars, xvars>>

\* os.replace(tmp_path, self) / tmp_path.replace(self): one atomic rename
Replace(w) ==
    /\ alive /\ pc[w] = "replace"
    /\ dir' = [dir EXCEPT ![Target] = dir[tmp_path[w]], ![tmp_path[w]] = NoIno]
    /\ pc' = [pc EXCEPT ![w] = "done"]
    /\ UNCHANGED <<parent, disk, synced, alive, mode, data, wrote, tmp_path, fd, err, rm, rvars, avars, xvars>>

\* mutant: a failure can also be raised after the rename, before the return
StepsAndReturn ==
    {"mkdir", "create", "write", "fsync", "body", "flush", "close", "replace", "done"}
\* the steps of a call at which a failure can be raised
FaultSteps == {"mkdir", "create", "write", "fsync", "body", "flush", "close", "replace"}
\* 'except Exception:' handles a failure of this kind (KeyboardInterrupt,
\* SystemExit and asyncio.CancelledError derive from BaseException only)
Catches(kind) == kind = "Exception"
\* mutant: a caught failure sends the call back to the step that failed
RetryStep(at, kind) ==
    IF at # "mkdir" /\ Catches(kind) THEN at ELSE "raised"
\* where control goes when a failure of this kind is raised at step at:
\* mkdir is outside the try; inside it, a caught failure runs the clean-up
Handler(at, kind) ==
    IF at # "mkdir" /\ Catches(kind) THEN "cleanup" ELSE "raised"

\* the current step raises instead of completing: an OSError of the step, the
\* with-body's own exception (at "body"), or an interrupt delivered there.
\* Leaving the 'with NamedTemporaryFile' block (or the inner except) closes the
\* file; nothing reads the payload or the stream position any more
Fault(w, kind) ==
    /\ alive /\ pc[w] \in FaultSteps
    /\ err' = [err EXCEPT ![w] = [at |-> pc[w], kind |-> kind]]
    /\ fd' = [fd EXCEPT ![w] = NoIno]
    /\ pc' = [pc EXCEPT ![w] = Handler(pc[w], kind)]
    /\ data' = [data EXCEPT ![w] = <<>>]
    /\ wrote' = [wrote EXCEPT ![w] = 0]
    /\ UNCHANGED <<parent, dir, disk, synced, alive, mode, tmp_path, rm, rvars, avars, xvars>>

\* mutant: the clean-up deletes the target instead of the temporary file
RemoveTarget(w) == Target
\* the path the clean-up deletes
RemovePath(w) == tmp_path[w]

\* mutant: the OSError of a failed deletion replaces the failure being handled
DeletionError(w, outcome) ==
    IF outcome = "failed" THEN [at |-> "cleanup", kind |-> "Exception"] ELSE err[w]
\* the bare 'raise' that ends the except-clause re-raises the failure being
\* handled; suppress(OSError) has swallowed the deletion's own error
Reraised(w, outcome) == err[w]

\* if tmp_path is not None and os.path.exists(tmp_path):
\*     with suppress(OSError): os.remove(tmp_path)
\* raise
\* (a removed file's bytes are freed unless a reader still has it open)
Cleanup(w) ==
    /\ alive /\ pc[w] = "cleanup"
    /\ \/ /\ tmp_path[w] # NoPath /\ dir[RemovePath(w)] # NoIno
          /\ dir' = [dir EXCEPT ![RemovePath(w)] = NoIno]
          /\ disk' = [disk EXCEPT ![dir[RemovePath(w)]] =
                         IF rfd = dir[RemovePath(w)] THEN @ ELSE Unalloc]
          /\ rm' = [rm EXCEPT ![w] = "ok"]
       \/ /\ tmp_path[w] # NoPath /\ dir[RemovePath(w)] # NoIno
          /\ rm' = [rm EXCEPT ![w] = "failed"]
          /\ UNCHANGED <<dir, disk>>
       \/ /\ ~(tmp_path[w] # NoPath /\ dir[RemovePath(w)] # NoIno)
          /\ rm' = [rm EXCEPT ![w] = "skipped"]
          /\ UNCHANGED <<dir, disk>>
    /\ err' = [err EXCEPT ![w] = Reraised(w, rm'[w])]
    /\ pc' = [pc EXCEPT ![w] = "raised"]
    /\ UNCHANGED <<parent, synced, alive, mode, data, wrote, tmp_path, fd, rvars, avars, xvars>>

\* the process is killed: no handler and no clean-up runs
Kill ==
    /\ alive
    /\ alive' = FALSE
    /\ UNCHANGED <<parent, dir, disk, synced, pc, mode, data, wrote, tmp_path, fd, err, rm, rvars, avars, xvars>>

(* ------------------------------ a reader ------------------------------- *)
\* read_bytes() of the target by another thread or process: open ...
ReaderOpen ==
    /\ rpc = "idle"
    /\ IF dir[Target] = NoIno
         THEN /\ observed' = Absent
              /\ UNCHANGED <<rpc, rfd>>
         ELSE /\ rfd' = dir[Target]
              /\ rpc' = "reading"
              /\ observed' = NotRead
    /\ UNCHANGED <<wvars, avars, xvars>>

\* ... then read what the opened file holds at that moment
ReaderRead ==
    /\ rpc = "reading"
    /\ observed' = Content(disk[rfd])
    /\ rfd' = NoIno
    /\ rpc' = "idle"
    /\ UNCHANGED <<wvars, avars, xvars>>

Next ==
    \/ \E w \in Writers :
         \/ Call(w) \/ Mkdir(w) \/ CreateTemp(w) \/ Write(w) \/ Fsync(w)
         \/ BodyWrite(w) \/ BodyExit(w) \/ Flush(w) \/ Close(w) \/ Replace(w)
         \/ Cleanup(w)
    \/ \E w \in Writers, kind \in FaultKinds : Fault(w, kind)
    \/ Kill
    \/ ReaderOpen
    \/ ReaderRead

Spec == Init /\ [][Next]_vars

(* ------------------------ claims C1 .. C7 (Spec) ----------------------- *)
\* the writer's temporary file is linked under no temporary name
TempGone(w) == \A n \in TmpNames : dir[n] # w
\* the writer holds a temporary file it has neither renamed nor given up
InFlight(w) ==
    /\ tmp_path[w] # NoPath
    /\ pc[w] \in {"write", "fsync", "body", "flush", "close", "replace", "cleanup"}
\* the writer is part-way through writing its temporary file
MidWrite(w) == pc[w] \in {"write", "body"} /\ 0 < wrote[w] /\ wrote[w] < Len(data[w])

\* C1: whatever a reader reads from the target, at any moment of any write, is
\* the target's state before the writes (its old content, or absent) or the
\* complete payload of a writer that has renamed: never empty, cut or mixed.
C1_ReaderSeesOldOrNew ==
    \/ observed = NotRead
    \/ observed = InitialView
    \/ \E w \in Writers : pc[w] = "done" /\ observed = Content(data[w])

\* C1 witness: the reader read a writer's full payload while the other writer
\* is part-way through its temporary file.
C1_Witness ==
    \E w, v \in Writers :
        /\ pc[w] = "done" /\ Len(data[w]) = MaxLen
        /\ observed = Content(data[w])
        /\ MidWrite(v)

\* C2: a call that fails after its temporary file was created leaves the
\* target as it was: with no other writer having renamed, the target is what
\* it was before the call, and in general the only step that changes the
\* target is a rename that completes (a failing or cleaning-up step never does).
C2_FaultLeavesTarget ==
    /\ [](\A w \in Writers :
            (/\ pc[w] = "raised" /\ tmp_path[w] # NoPath
             /\ \A v \in Writers : pc[v] # "done")
            => TargetView = InitialView)
    /\ [][TargetView' # TargetView
            => \E w \in Writers : pc[w] = "replace" /\ pc'[w] = "done"]_vars

\* C2 witness: a write failed while writing its temporary file, with an
\* ordinary exception, its clean-up ran, and the target still holds its old
\* content.
C2_Witness ==
    \E w \in Writers :
        /\ pc[w] = "raised" /\ err[w].kind = "Exception" /\ err[w].at \in {"write", "body"}
        /\ rm[w] = "ok" /\ TempGone(w)
        /\ TargetView = Content(OldContent)

\* C3 (as claimed): whenever a call has raised after creating its temporary
\* file, whatever the kind of failure, that file is gone (granting the
\* clean-up's own deletion did not fail).
C3_TempDeletedOnEveryFailure ==
    \A w \in Writers :
        (pc[w] = "raised" /\ tmp_path[w] # NoPath /\ rm[w] # "failed") => TempGone(w)

\* C4 (as claimed): in scoped mode the target is replaced only when the body
\* did not raise; when the body raised, the target was not replaced by this
\* call, the temporary file is deleted (granting the deletion did not fail),
\* and the exception raised to the caller is the body's.
C4_ScopedCommitIffBodyOk ==
    \A w \in Writers :
        mode[w] = "scoped" =>
            /\ (pc[w] = "done" => err[w] = NoErr /\ dir[Target] # NoIno)
            /\ (pc[w] = "raised" /\ err[w].at = "body" =>
                   /\ dir[Target] # w
                   /\ (rm[w] # "failed" => TempGone(w)))

\* C5: writers in flight never share a temporary path; when every writer has
\* finished successfully the target holds the whole payload of one of them and
\* no temporary name is left; and each rename makes the target exactly that
\* writer's payload, so the last rename decides.
C5_ConcurrentWriters ==
    /\ [](/\ \A w, v \in Writers :
               (w # v /\ InFlight(w) /\ InFlight(v)) => tmp_path[w] # tmp_path[v]
          /\ (\A w \in Writers : pc[w] = "done") =>
               /\ \E w \in Writers : dir[Target] = w /\ TargetView = Content(data[w])
               /\ \A n \in TmpNames : dir[n] = NoIno)
    /\ [][\A w \in Writers :
            (pc[w] = "replace" /\ pc'[w] = "done") => TargetView' = Content(data[w])]_vars

\* C5 witness: both writers finished successfully with different non-empty
\* payloads written through different temporary names.
C5_Witness ==
    /\ \A w \in Writers : pc[w] = "done" /\ Len(data[w]) > 0
    /\ tmp_path["w1"] # tmp_path["w2"]
    /\ mode["w1"] # mode["w2"]

\* C6: after the process is killed, at whatever point of whatever write, the
\* target is what it was before the writes or holds the complete payload of a
\* writer whose rename had completed.
C6_KilledTargetWhole ==
    ~alive =>
        \/ TargetView = InitialView
        \/ \E w \in Writers : pc[w] = "done" /\ TargetView = Content(data[w])

\* C6 witness: the process was killed while a writer was part-way through its
\* temporary file, and the target still holds its old content.
C6_Witness ==
    /\ ~alive
    /\ \E w \in Writers : MidWrite(w)
    /\ TargetView = Content(OldContent)

InitAsync ==
    /\ WriterIdle
    /\ CodecIdle
    /\ BytesIdle
    /\ FilesIdle
    /\ batch \in BOOLEAN
    /\ ops \in SeqsUpTo(IF batch THEN ReadOps ELSE AllOps, MaxN)
    /\ \E missing \in SUBSET {"a"} :
         afile = [p \in Paths |-> IF p \in missing THEN Missing ELSE TextOf(p)]
    /\ work = [i \in Tasks |-> IF i <= Len(ops) THEN "new" ELSE "none"]
    /\ wait = [i \in Tasks |-> IF i <= Len(ops) THEN "awaiting" ELSE "none"]
    /\ aresult = [i \in Tasks |-> NoRes]
    /\ got = [i \in Tasks |-> NoRes]
    /\ queue = <<>>
    /\ busy = 0
    /\ gres = [i \in Tasks |-> NoRes]
    /\ nfinished = 0
    /\ gstate = IF batch THEN "pending" ELSE "none"
    /\ gout = <<>>

\* mutant: gather(return_exceptions=True), a failure is a result like any other
NoError(r) == FALSE
\* gather(*tasks) without return_exceptions: a child's exception is an error
IsError(r) == r = NotFound

\* asyncio.gather() of no awaitables is already resolved with []
GatherEmpty ==
    /\ batch /\ gstate = "pending" /\ Len(ops) = 0
    /\ gstate' = "returned"
    /\ gout' = <<>>
    /\ UNCHANGED <<xvars, wvars, rvars, batch, ops, afile, work, wait, aresult, got, queue,
                   busy, gres, nfinished>>

\* the coroutine runs up to its await: to_thread submits the call to the
\* executor; the loop starts the coroutines in the order they were created
Submit(i) ==
    /\ work[i] = "new" /\ wait[i] = "awaiting"
    /\ \A j \in 1..(i - 1) : work[j] # "new"
    /\ work' = [work EXCEPT ![i] = "queued"]
    /\ queue' = Append(queue, i)
    /\ UNCHANGED <<xvars, wvars, rvars, batch, ops, afile, wait, aresult, got, busy, gres,
                   nfinished, gstate, gout>>

\* a worker thread takes the oldest queued call, when the pool has a free thread
Start(i) ==
    /\ queue # <<>> /\ i = Head(queue)
    /\ busy < PoolSize
    /\ queue' = Tail(queue)
    /\ busy' = busy + 1
    /\ work' = [work EXCEPT ![i] = "running"]
    /\ UNCHANGED <<xvars, wvars, rvars, batch, ops, afile, wait, aresult, got, gres,
                   nfinished, gstate, gout>>

\* the outcome of the blocking call: read_text returns the text or raises
\* FileNotFoundError; dump_json returns None
Outcome(i) ==
    IF ops[i].kind = "dump" THEN "None"
    ELSE IF afile[ops[i].path] = Missing THEN NotFound ELSE afile[ops[i].path]

\* mutant: a worker whose call raised is never given back to the pool
BusyLeak(i) == IF IsError(Outcome(i)) THEN busy ELSE busy - 1
\* the worker thread is free again whatever the call's outcome
BusyAfterFinish(i) == busy - 1

\* the blocking call completes on its worker thread
Finish(i) ==
    /\ work[i] = "running"
    /\ aresult' = [aresult EXCEPT ![i] = Outcome(i)]
    /\ afile' = IF ops[i].kind = "dump"
                  THEN [afile EXCEPT ![ops[i].path] = Dumped] ELSE afile
    /\ work' = [work EXCEPT ![i] = "finished"]
    /\ busy' = BusyAfterFinish(i)
    /\ UNCHANGED <<xvars, wvars, rvars, batch, ops, wait, got, queue, gres, nfinished,
                   gstate, gout>>

\* mutant: gather stores each result at the next free position
CompletionSlot(i) == nfinished + 1
\* gather keeps the children in argument order and reads their results in it
Slot(i) == i

\* the loop hands the outcome to the awaiting coroutine; for a child of
\* read_many_async, gather's done-callback then runs: the first exception is
\* raised at once, and the list is returned when the last child has finished
Resolve(i) ==
    /\ work[i] = "finished" /\ wait[i] = "awaiting"
    /\ wait' = [wait EXCEPT ![i] = "resolved"]
    /\ got' = [got EXCEPT ![i] = aresult[i]]
    /\ IF batch /\ gstate = "pending"
         THEN IF IsError(aresult[i])
                THEN /\ gstate' = "raised"
                     /\ gout' = <<aresult[i]>>
                     /\ UNCHANGED <<gres, nfinished>>
                ELSE /\ gres' = [gres EXCEPT ![Slot(i)] = aresult[i]]
                     /\ nfinished' = nfinished + 1
                     /\ IF nfinished' = Len(ops)
                          THEN /\ gstate' = "returned"
                               /\ gout' = [k \in 1..Len(ops) |-> gres'[k]]
                          ELSE UNCHANGED <<gstate, gout>>
         ELSE UNCHANGED <<gres, nfinished, gstate, gout>>
    /\ UNCHANGED <<xvars, wvars, rvars, batch, ops, afile, work, aresult, queue, busy>>

\* mutant: cancelling the awaiting coroutine also aborts a running call
DropWork(i) == "dropped"
\* cancelling reaches the executor's future: a call not yet started is
\* dropped, a call already running on its thread cannot be stopped
CancelWork(i) == IF work[i] \in {"new", "queued"} THEN "dropped" ELSE work[i]

\* the coroutine awaiting operation i is cancelled (or stops awaiting)
Cancel(i) ==
    /\ ~batch /\ wait[i] = "awaiting"
    /\ wait' = [wait EXCEPT ![i] = "cancelled"]
    /\ work' = [work EXCEPT ![i] = CancelWork(i)]
    /\ queue' = SelectSeq(queue, LAMBDA j : j # i)
    /\ UNCHANGED <<xvars, wvars, rvars, batch, ops, afile, aresult, got, busy, gres,
                   nfinished, gstate, gout>>

\* the coroutine awaiting read_many_async is cancelled: gather cancels every
\* child that has not finished
CancelBatch ==
    /\ batch /\ gstate = "pending" /\ Len(ops) > 0
    /\ gstate' = "cancelled"
    /\ gout' = <<"CancelledError">>
    /\ wait' = [i \in Tasks |-> IF wait[i] = "awaiting" THEN "cancelled" ELSE wait[i]]
    /\ work' = [i \in Tasks |-> IF wait[i] = "awaiting" THEN CancelWork(i) ELSE work[i]]
    /\ queue' = <<>>
    /\ UNCHANGED <<xvars, wvars, rvars, batch, ops, afile, aresult, got, busy, gres, nfinished>>

NextAsync ==
    \/ \E i \in Tasks : Submit(i) \/ Start(i) \/ Finish(i) \/ Resolve(i) \/ Cancel(i)
    \/ GatherEmpty
    \/ CancelBatch

SpecAsync == InitAsync /\ [][NextAsync]_vars

\* the loop runs a ready coroutine or callback, a free worker thread takes
\* queued work, and a blocking call terminates: while any such step is
\* possible, one is eventually taken
Progress ==
    \/ \E i \in Tasks : Submit(i) \/ Start(i) \/ Finish(i) \/ Resolve(i)
    \/ GatherEmpty

SpecAsyncFair == SpecAsync /\ WF_vars(Progress)

(* --------------------- claims C8 .. C10 (SpecAsync) -------------------- *)
\* C8: when every path of read_many_async names an existing file, the call
\* does not raise, and what it returns is a list as long as the input whose
\* i-th element is the text of the i-th path, in whatever order the reads
\* completed.
C8_ReadManyOrdered ==
    (batch /\ \A i \in DOMAIN ops : afile[ops[i].path] # Missing) =>
        /\ gstate # "raised"
        /\ gstate = "returned" =>
             /\ Len(gout) = Len(ops)
             /\ \A i \in DOMAIN ops : gout[i] = TextOf(ops[i].path)

\* C8 witness: read_many_async returned for the longest list, which names one
\* path twice around another.
C8_Witness ==
    /\ batch /\ gstate = "returned" /\ Len(ops) = MaxN
    /\ ops[1].path # ops[2].path /\ ops[1].path = ops[Len(ops)].path

\* C9: a blocking call that has started on a worker thread is never aborted
\* and does finish; when its awaiting coroutine was cancelled meanwhile, the
\* call's effect is there (dump_json_async's file holds the dumped text) and
\* only the result is dropped (the coroutine received nothing).
C9_StartedRunsToCompletion ==
    /\ [][\A i \in Tasks : work[i] = "running" => work'[i] \in {"running", "finished"}]_vars
    /\ \A i \in Tasks : (work[i] = "running") ~> (work[i] = "finished")
    /\ [](\A i \in DOMAIN ops :
            (work[i] = "finished" /\ wait[i] = "cancelled") =>
                /\ got[i] = NoRes /\ aresult[i] # NoRes
                /\ ops[i].kind = "dump" => afile[ops[i].path] = Dumped)

\* C9 witness: the only dump, on a file that did not exist, finished and left
\* its text although its awaiting coroutine was cancelled.
C9_Witness ==
    \E i \in DOMAIN ops :
        /\ ops[i].kind = "dump" /\ \A j \in DOMAIN ops : j # i => ops[j].kind = "read"
        /\ wait[i] = "cancelled" /\ work[i] = "finished"
        /\ afile[ops[i].path] = Dumped /\ got[i] = NoRes

\* C10: every operation that is awaited ends up resolved with exactly the
\* outcome of its blocking call, result or failure (or its awaiting coroutine
\* was cancelled), and read_many_async ends up returned, raised or cancelled,
\* also with more operations than worker threads.
C10_AwaitedResolves ==
    /\ \A i \in Tasks :
         (wait[i] = "awaiting") ~>
            \/ wait[i] = "cancelled"
            \/ wait[i] = "resolved" /\ got[i] = aresult[i] /\ got[i] # NoRes
    /\ (gstate = "pending") ~> (gstate \in {"returned", "raised", "cancelled"})

\* C10 witness: more operations than worker threads were submitted, and all
\* are resolved, one with a text and one with FileNotFoundError.
C10_Witness ==
    /\ Len(ops) > PoolSize
    /\ \A i \in DOMAIN ops : wait[i] = "resolved"
    /\ \E i, j \in DOMAIN ops : got[i] = NotFound /\ got[j] \in {TextOf("b"), Dumped}

(* ------------------- msgspec's JSON and YAML codecs -------------------- *)
\* floats JSON has no literal for
NonFinite == {"inf", "-inf", "nan"}
\* the encoders raise TypeError for a value that holds an unsupported object
RECURSIVE Encodable(_)
Encodable(v) ==
    /\ v.t # "object"
    /\ \A i \in DOMAIN v.items : Encodable(v.items[i])

\* _json_encoder.encode(data): the compact text; msgspec writes a non-finite
\* float as null
RECURSIVE EncodeJson(_), JsonItems(_, _)
EncodeJson(v) ==
    CASE v.t = "null" -> <<Bare("null")>>
      [] v.t \in {"bool", "int"} -> <<Bare(v.s)>>
      [] v.t = "float" -> IF v.s \in NonFinite THEN <<Bare("null")>> ELSE <<Bare(v.s)>>
      [] v.t = "str" -> <<Quoted(v.s)>>
      [] v.t = "list" -> <<Punct("[")>> \o JsonItems(v, 1) \o <<Punct("]")>>
      [] v.t = "dict" -> <<Punct("{")>> \o JsonItems(v, 1) \o <<Punct("}")>>
\* the members of a list or dict from the i-th on, separated by commas
JsonItems(v, i) ==
    IF i > Len(v.items) THEN <<>>
    ELSE (IF i > 1 THEN <<Punct(",")>> ELSE <<>>)
         \o (IF v.t = "dict" THEN <<Quoted(v.keys[i]), Punct(":")>> ELSE <<>>)
         \o EncodeJson(v.items[i])
         \o JsonItems(v, i + 1)

Opens == {Punct("["), Punct("{")}
Closes == {Punct("]"), Punct("}")}
\* a line break followed by n spaces
BreakTo(n) == IF n = 0 THEN <<Newline>> ELSE <<Newline, Spaces(n)>>
\* msgspec.json.format(buf, indent=indent) for indent > 0, from the i-th token
\* on at nesting level depth: every member of a non-empty container on a line
\* of its own, indent spaces per level, one space after each colon
RECURSIVE FormatJson(_, _, _, _)
FormatJson(toks, i, depth, indent) ==
    IF i > Len(toks) THEN <<>>
    ELSE LET t == toks[i] IN
         CASE t \in Opens /\ i < Len(toks) /\ toks[i + 1] \in Closes ->
                  <<t, toks[i + 1]>> \o FormatJson(toks, i + 2, depth, indent)
           [] t \in Opens /\ ~(i < Len(toks) /\ toks[i + 1] \in Closes) ->
                  <<t>> \o BreakTo(indent * (depth + 1))
                        \o FormatJson(toks, i + 1, depth + 1, indent)
           [] t \in Closes ->
                  BreakTo(indent * (depth - 1)) \o <<t>>
                        \o FormatJson(toks, i + 1, depth - 1, indent)
           [] t = Punct(",") ->
                  <<t>> \o BreakTo(indent * depth)
                        \o FormatJson(toks, i + 1, depth, indent)
           [] t = Punct(":") ->
                  <<t, Spaces(1)>> \o FormatJson(toks, i + 1, depth, indent)
           [] t.k \in {"nl", "sp"} -> FormatJson(toks, i + 1, depth, indent)
           [] OTHER -> <<t>> \o FormatJson(toks, i + 1, depth, indent)

\* dump_json's 'indent: int = 2'
DefaultIndent == 2
\* mutant: the text is laid out for every indent, 0 included
AlwaysFormat(indent) == TRUE
\* dump_json's 'if indent > 0'
Indented(indent) == indent > 0
\* the bytes dump_json hands to _atomic_write_bytes
JsonBytes(v, indent) ==
    IF Indented(indent) THEN FormatJson(EncodeJson(v), 1, 0, indent)
    ELSE EncodeJson(v)

(* ------------------------------ decoding ------------------------------- *)
\* the lexemes the bounded inputs use for integers and for finite floats
IntLexemes == {"0", "1", "2", "3", "-10"}
FloatLexemes == {"1.0", "3.14"}

\* outcome of a parse: the value and the tokens left, or a failure
Parsed(v, rest) == [ok |-> TRUE, val |-> v, rest |-> rest]
Failed == [ok |-> FALSE, val |-> NoVal, rest |-> <<>>]
Rest(toks, i) == SubSeq(toks, i, Len(toks))
\* JSON ignores whitespace between tokens
Significant(text) == SelectSeq(text, LAMBDA t : t.k \notin {"nl", "sp"})

\* the value a bare JSON literal stands for
JsonLiteral(s) ==
    CASE s = "null" -> Parsed(PyNone, <<>>)
      [] s \in {"true", "false"} -> Parsed(PyBool(s), <<>>)
      [] s \in IntLexemes -> Parsed(PyInt(s), <<>>)
      [] s \in FloatLexemes -> Parsed(PyFloat(s), <<>>)
      [] OTHER -> Failed

\* the JSON grammar, by recursive descent: a value at the head of toks, and
\* the members of a list or dict after its opening bracket
RECURSIVE ParseJson(_), ParseJsonMembers(_, _, _, _)
ParseJson(toks) ==
    IF toks = <<>> THEN Failed
    ELSE LET t == Head(toks) IN
         CASE t.k = "s" -> Parsed(PyStr(t.s), Tail(toks))
           [] t.k = "l" ->
                  LET l == JsonLiteral(t.s) IN
                  IF l.ok THEN Parsed(l.val, Tail(toks)) ELSE Failed
           [] t = Punct("[") ->
                  IF Len(toks) > 1 /\ toks[2] = Punct("]")
                    THEN Parsed(PyList(<<>>), Rest(toks, 3))
                    ELSE ParseJsonMembers(Tail(toks), "list", <<>>, <<>>)
           [] t = Punct("{") ->
                  IF Len(toks) > 1 /\ toks[2] = Punct("}")
                    THEN Parsed(PyDict(<<>>, <<>>), Rest(toks, 3))
                    ELSE ParseJsonMembers(Tail(toks), "dict", <<>>, <<>>)
           [] OTHER -> Failed
ParseJsonMembers(toks, t, keys, items) ==
    LET keyed == t = "dict"
        haskey == Len(toks) > 2 /\ toks[1].k = "s" /\ toks[2] = Punct(":")
        r == IF keyed THEN (IF haskey THEN ParseJson(Rest(toks, 3)) ELSE Failed)
             ELSE ParseJson(toks)
        ks == IF keyed /\ haskey THEN Append(keys, toks[1].s) ELSE keys
        close == IF keyed THEN Punct("}") ELSE Punct("]")
    IN  IF ~r.ok \/ r.rest = <<>> THEN Failed
        ELSE IF Head(r.rest) = Punct(",")
               THEN ParseJsonMembers(Tail(r.rest), t, ks, Append(items, r.val))
        ELSE IF Head(r.rest) = close
               THEN Parsed([t |-> t, s |-> "", keys |-> ks, items |-> Append(items, r.val)],
                           Tail(r.rest))
        ELSE Failed

\* msgspec.json decoding of a whole document: one value and nothing after it
DecodeJson(text) ==
    LET r == ParseJson(Significant(text)) IN
    IF r.ok /\ r.rest = <<>> THEN r ELSE Failed

(* -------------------------------- YAML --------------------------------- *)
\* the value PyYAML's resolver gives a plain (unquoted) scalar
YamlPlain(s) ==
    CASE s \in {"null", "~", ""} -> PyNone
      [] s \in {"true", "false"} -> PyBool(s)
      [] s \in IntLexemes -> PyInt(s)
      [] s \in FloatLexemes -> PyFloat(s)
      [] s = ".inf" -> PyFloat("inf")
      [] s = "-.inf" -> PyFloat("-inf")
      [] s = ".nan" -> PyFloat("nan")
      [] OTHER -> PyStr(s)
\* how the dumper writes a float
YamlFloat(s) ==
    CASE s = "inf" -> ".inf"
      [] s = "-inf" -> "-.inf"
      [] s = "nan" -> ".nan"
      [] OTHER -> s
\* mutant: every string is written plain
PlainString(s) == Bare(s)
\* a string is written plain only if the resolver reads it back as a string
YamlString(s) == IF YamlPlain(s) = PyStr(s) THEN Bare(s) ELSE Quoted(s)

\* msgspec.yaml.encode(data): the document as its structure marks and scalars
RECURSIVE EncodeYaml(_), YamlItems(_, _)
EncodeYaml(v) ==
    CASE v.t = "null" -> <<Bare("null")>>
      [] v.t \in {"bool", "int"} -> <<Bare(v.s)>>
      [] v.t = "float" -> <<Bare(YamlFloat(v.s))>>
      [] v.t = "str" -> <<YamlString(v.s)>>
      [] v.t = "list" -> <<Mark("+seq")>> \o YamlItems(v, 1) \o <<Mark("-seq")>>
      [] v.t = "dict" -> <<Mark("+map")>> \o YamlItems(v, 1) \o <<Mark("-map")>>
YamlItems(v, i) ==
    IF i > Len(v.items) THEN <<>>
    ELSE (IF v.t = "dict" THEN <<YamlString(v.keys[i])>> ELSE <<>>)
         \o EncodeYaml(v.items[i])
         \o YamlItems(v, i + 1)

\* the loader: a node at the head of toks, and the entries of a sequence or
\* mapping up to its end mark
RECURSIVE ParseYaml(_), ParseYamlEntries(_, _, _, _)
ParseYaml(toks) ==
    IF toks = <<>> THEN Failed
    ELSE LET t == Head(toks) IN
         CASE t.k = "s" -> Parsed(PyStr(t.s), Tail(toks))
           [] t.k = "l" -> Parsed(YamlPlain(t.s), Tail(toks))
           [] t = Mark("+seq") -> ParseYamlEntries(Tail(toks), "list", <<>>, <<>>)
           [] t = Mark("+map") -> ParseYamlEntries(Tail(toks), "dict", <<>>, <<>>)
           [] OTHER -> Failed
ParseYamlEntries(toks, t, keys, items) ==
    LET keyed == t = "dict"
        close == IF keyed THEN Mark("-map") ELSE Mark("-seq")
        \* keys are kept by their lexeme
        haskey == Len(toks) > 1 /\ toks[1].k \in {"s", "l"}
        r == IF keyed THEN (IF haskey THEN ParseYaml(Tail(toks)) ELSE Failed)
             ELSE ParseYaml(toks)
    IN  IF toks = <<>> THEN Failed
        ELSE IF Head(toks) = close
               THEN Parsed([t |-> t, s |-> "", keys |-> keys, items |-> items], Tail(toks))
        ELSE IF ~r.ok THEN Failed
        ELSE ParseYamlEntries(r.rest, t, IF keyed THEN Append(keys, toks[1].s) ELSE keys,
                              Append(items, r.val))

\* msgspec.yaml.decode of a whole document (a yaml.YAMLError is re-raised as
\* msgspec.DecodeError); an empty document loads as None
DecodeYaml(text) ==
    LET r == ParseYaml(text) IN
    IF text = <<>> THEN Parsed(PyNone, <<>>)
    ELSE IF r.ok /\ r.rest = <<>> THEN r ELSE Failed

(* --------------------------- typed decoding ---------------------------- *)
\* the target type of the typed loads: class Config(TypedDict) with its three
\* required fields
Config ==
    {[name |-> "name", type |-> "str"], [name |-> "version", type |-> "str"],
     [name |-> "debug", type |-> "bool"]}
\* msgspec's strict conversion accepts a mapping that has every field of the
\* type, each holding a value of the field's own type
Conforms(v, shape) ==
    /\ v.t = "dict"
    /\ \A f \in shape :
         \E i \in DOMAIN v.keys : v.keys[i] = f.name /\ v.items[i].t = f.type
\* the typed value: the fields of the type, unknown keys ignored
Convert(v, shape) ==
    LET known == SelectSeq([i \in DOMAIN v.keys |-> i],
                           LAMBDA i : \E f \in shape : f.name = v.keys[i])
    IN  PyDict([j \in DOMAIN known |-> v.keys[known[j]]],
               [j \in DOMAIN known |-> v.items[known[j]]])

(* ------------------------- load_json, load_yaml ------------------------ *)
Decode(fmt, text) == IF fmt = "json" THEN DecodeJson(text) ELSE DecodeYaml(text)

\* mutant: a missing file reads as no bytes
MissingReadsEmpty(file, denied) ==
    IF file.exists /\ denied THEN "PermissionError" ELSE "none"
\* self.read_bytes(): the OSError it raises, if any
ReadFails(file, denied) ==
    CASE ~file.exists -> "FileNotFoundError"
      [] file.exists /\ denied -> "PermissionError"
      [] OTHER -> "none"

\* mutant: only syntax errors are caught
OnlySyntaxErrors(cause) == cause = "DecodeError"
\* 'except msgspec.DecodeError': msgspec.ValidationError is a subclass of it
IsDecodeError(cause) == cause \in {"DecodeError", "ValidationError"}
\* mutant: load_yaml raises the JSON class
AlwaysJsonError(fmt) == "JSONDecodeError"
\* the class each load wraps a decode failure in
DecodeErrorOf(fmt) == IF fmt = "json" THEN "JSONDecodeError" ELSE "YAMLDecodeError"
\* f"Failed to decode JSON from {self}: {e}"
WrappedMessage(fmt, cause) ==
    <<IF fmt = "json" THEN "Failed to decode JSON from " ELSE "Failed to decode YAML from ",
      FilePath, ": ", cause>>
\* str() of an exception that is not wrapped: an OSError raised for the path
\* names it, the others do not
RawMessage(cause) ==
    CASE cause = "FileNotFoundError" -> <<"[Errno 2] No such file or directory: ", FilePath>>
      [] cause = "PermissionError" -> <<"[Errno 13] Permission denied: ", FilePath>>
      [] cause = "TypeError" -> <<"Encoding objects of type object is unsupported">>
      [] OTHER -> <<"[Errno 28] No space left on device">>

\* what reaches the caller of a load when 'cause' is raised inside its try
Raised(fmt, cause) ==
    IF IsDecodeError(cause)
      THEN [exc |-> DecodeErrorOf(fmt), cause |-> cause, msg |-> WrappedMessage(fmt, cause),
            val |-> NoVal]
      ELSE [exc |-> cause, cause |-> cause, msg |-> RawMessage(cause), val |-> NoVal]
Returned(v) == [exc |-> "none", cause |-> "none", msg |-> <<>>, val |-> v]

\* the body of load_json / load_yaml
LoadOutcome(fmt, typed, file, denied) ==
    LET rd == ReadFails(file, denied)
        d == Decode(fmt, file.text)
        cause == CASE rd # "none" -> rd
                   [] rd = "none" /\ ~d.ok -> "DecodeError"
                   [] rd = "none" /\ d.ok /\ typed /\ ~Conforms(d.val, Config) ->
                          "ValidationError"
                   [] OTHER -> "none"
    IN  IF cause # "none" THEN Raised(fmt, cause)
        ELSE Returned(IF typed THEN Convert(d.val, Config) ELSE d.val)

(* ----------------------------- SpecCodec ------------------------------- *)
\* the values a caller may hold
ScalarSamples ==
    {PyNone, PyBool("true"), PyBool("false"), PyInt("0"), PyInt("1"), PyInt("-10"),
     PyFloat("1.0"), PyFloat("3.14"), PyFloat("inf"),
     PyStr(""), PyStr("a"), PyStr("1"), PyStr("true"), PyStr("null"),
     PyStr("non-ASCII text")}
ABC == PyDict(<<"a", "b", "c">>, <<PyInt("1"), PyInt("2"), PyInt("3")>>)
NameVersion == PyDict(<<"name", "version">>, <<PyStr("Easy File"), PyStr("0.4.0")>>)
FullConfig ==
    PyDict(<<"name", "version", "debug", "extra">>,
           <<PyStr("Easy File"), PyStr("0.4.0"), PyBool("true"), PyInt("1")>>)
StringForBool ==
    PyDict(<<"name", "version", "debug">>, <<PyStr("Easy File"), PyStr("1"), PyStr("true")>>)
Nested ==
    PyDict(<<"value", "list">>,
           <<PyNone, PyList(<<PyInt("1"), PyNone, PyDict(<<"five">>, <<PyList(<<>>)>>)>>)>>)
ContainerSamples ==
    {PyList(<<>>), PyDict(<<>>, <<>>), PyList(<<PyInt("1"), PyStr("1"), PyBool("true")>>),
     ABC, NameVersion, FullConfig, StringForBool, Nested,
     PyDict(<<"name", "version", "debug">>, <<PyStr("Easy File"), PyInt("1"), PyBool("true")>>)}
\* with two values that hold an object no encoder supports
Samples ==
    ScalarSamples \cup ContainerSamples \cup {PyObject, PyList(<<PyInt("1"), PyObject>>)}

InitCodec ==
    /\ WriterIdle
    /\ AsyncIdle
    /\ BytesIdle
    /\ FilesIdle
    /\ cin \in Samples
    /\ \E f \in {"none", "json", "yaml"} :
         /\ cfmt = f
         /\ cfile = CASE f = "json" -> FileOf(BadJson)
                      [] f = "yaml" -> FileOf(BadYaml)
                      [] OTHER -> NoFile
    /\ cdata = NoVal
    /\ cres = NoCall

\* load_json(type) / load_yaml(type), called directly or through
\* load_json_async / load_yaml_async (asyncio.to_thread hands back what the
\* blocking call returned or raised); the file is in the format's own syntax
Load(fmt) ==
    /\ cfile.exists => cfmt = fmt
    /\ \E typed \in BOOLEAN, via \in {"sync", "async"}, denied \in BOOLEAN :
         /\ denied => cfile.exists
         /\ cres' = [op |-> "load", fmt |-> fmt, via |-> via, typed |-> typed,
                     given |-> FALSE, indent |-> 0, arg |-> NoVal]
                    @@ LoadOutcome(fmt, typed, cfile, denied)
    /\ UNCHANGED <<cin, cfile, cfmt, cdata, wvars, rvars, avars, bvars, fvars>>
LoadJson == Load("json")
LoadYaml == Load("yaml")

\* dump_json(data, indent) / dump_yaml(data) and their async wrappers: the
\* value is encoded first, and the bytes go through _atomic_write_bytes, which
\* either replaces the file or raises its OSError leaving the file as it was
Dump(fmt, v, given, indent, via, fault) ==
    LET used == IF given THEN indent ELSE DefaultIndent
        call == [op |-> "dump", fmt |-> fmt, via |-> via, typed |-> FALSE,
                 given |-> given, indent |-> used, arg |-> v]
        text == IF fmt = "json" THEN JsonBytes(v, used) ELSE EncodeYaml(v)
    IN  IF ~Encodable(v)
          THEN /\ cres' = call @@ Raised(fmt, "TypeError")
               /\ UNCHANGED <<cfile, cfmt, cdata>>
        ELSE IF fault
          THEN /\ cres' = call @@ Raised(fmt, "OSError")
               /\ UNCHANGED <<cfile, cfmt, cdata>>
        ELSE /\ cfile' = FileOf(text)
             /\ cfmt' = fmt
             /\ cdata' = v
             /\ cres' = call @@ Returned(NoVal)
DumpJson ==
    /\ \E given \in BOOLEAN, indent \in 0..MaxIndent,
          via \in {"sync", "async"}, fault \in BOOLEAN :
         /\ ~given => indent = 0
         /\ Dump("json", cin, given, indent, via, fault)
    /\ UNCHANGED <<cin, wvars, rvars, avars, bvars, fvars>>
DumpYaml ==
    /\ \E via \in {"sync", "async"}, fault \in BOOLEAN :
         Dump("yaml", cin, FALSE, 0, via, fault)
    /\ UNCHANGED <<cin, wvars, rvars, avars, bvars, fvars>>

NextCodec == LoadJson \/ LoadYaml \/ DumpJson \/ DumpYaml

SpecCodec == InitCodec /\ [][NextCodec]_vars

(* -------------------- claims C11 .. C18 (SpecCodec) -------------------- *)
\* the last call was a load of a file the caller may read
Loaded == cres.op = "load" /\ cres.cause # "PermissionError"
\* the file is what a dump of the caller's value wrote
DumpedFile == cfile.exists /\ cdata = cin /\ Encodable(cin)

\* C11: load_json, load_yaml and their async variants, called for a path that
\* does not exist, raise FileNotFoundError, never JSONDecodeError,
\* YAMLDecodeError or another class, and the path is still absent afterwards.
C11_MissingFileNotFound ==
    /\ [](cres.op = "load" /\ ~cfile.exists => cres.exc = "FileNotFoundError")
    /\ [][cres'.op = "load" /\ ~cfile.exists => ~cfile'.exists]_vars

\* C11 witness: load_yaml_async was called on the absent path and raised
\* FileNotFoundError.
C11_Witness ==
    /\ cres.op = "load" /\ cres.fmt = "yaml" /\ cres.via = "async"
    /\ ~cfile.exists
    /\ cres.exc = "FileNotFoundError"

\* C12: when the bytes of an existing file are not well-formed, load_json
\* raises JSONDecodeError and load_yaml raises YAMLDecodeError, with a message
\* that holds the path and 'Failed to decode JSON' / 'Failed to decode YAML'.
C12_MalformedRaisesDecodeError ==
    (Loaded /\ cfile \in {FileOf(BadJson), FileOf(BadYaml)}) =>
        /\ cres.exc = (IF cres.fmt = "json" THEN "JSONDecodeError" ELSE "YAMLDecodeError")
        /\ \E i \in DOMAIN cres.msg : cres.msg[i] = FilePath
        /\ \E i \in DOMAIN cres.msg :
             cres.msg[i] = (IF cres.fmt = "json" THEN "Failed to decode JSON from "
                            ELSE "Failed to decode YAML from ")

\* C12 witness: load_yaml met 'invalid: [yaml' and raised YAMLDecodeError.
C12_Witness ==
    /\ Loaded /\ cres.fmt = "yaml"
    /\ cfile = FileOf(BadYaml)
    /\ cres.exc = "YAMLDecodeError"

\* the value has no entry of the field's type under the field's name
LacksField(v, f) ==
    \/ v.t # "dict"
    \/ \A i \in DOMAIN v.keys : v.keys[i] = f.name => v.items[i].t # f.type
\* the value's entry under the key k is x
HasEntry(v, k, x) == \E i \in DOMAIN v.keys : v.keys[i] = k /\ v.items[i] = x

\* C13: a typed load of a document that lacks a required field of the type, or
\* holds a value of another type under it, raises the format's decode error;
\* a typed load that returns holds, under every field of the type, the very
\* value that was dumped (nothing defaulted, coerced or left out).
C13_TypedLoadRejectsMismatch ==
    (Loaded /\ cres.typed /\ DumpedFile) =>
        /\ (\E f \in Config : LacksField(cin, f)) =>
               cres.exc = (IF cres.fmt = "json" THEN "JSONDecodeError" ELSE "YAMLDecodeError")
        /\ cres.exc = "none" =>
               \A f \in Config :
                  \E i \in DOMAIN cin.keys :
                     /\ cin.keys[i] = f.name /\ cin.items[i].t = f.type
                     /\ HasEntry(cres.val, f.name, cin.items[i])

\* C13 witness: a typed load_json of a document whose 'debug' holds the string
\* "true" raised JSONDecodeError for msgspec's ValidationError.
C13_Witness ==
    /\ Loaded /\ cres.typed /\ cres.fmt = "json" /\ DumpedFile
    /\ cin = StringForBool
    /\ cres.cause = "ValidationError"
    /\ cres.exc = "JSONDecodeError"

\* the value holds a float JSON has no literal for
RECURSIVE HasNonFinite(_)
HasNonFinite(v) ==
    \/ v.t = "float" /\ v.s \in NonFinite
    \/ \E i \in DOMAIN v.items : HasNonFinite(v.items[i])
\* the format cannot represent the value
Unrepresentable(v, fmt) == ~Encodable(v) \/ (fmt = "json" /\ HasNonFinite(v))

\* C14 (as claimed): a dump_json or dump_yaml of a value the format cannot
\* represent raises an encode error and the file is not written from it.
C14_UnrepresentableNeverWritten ==
    (cres.op = "dump" /\ Unrepresentable(cres.arg, cres.fmt)) =>
        /\ cres.exc = "TypeError"
        /\ cdata # cres.arg

\* the kinds of the taxonomy, as exception classes (the code defines none for
\* EncodeError and WriteFailure)
TaxonomyKinds ==
    {"FileNotFoundError", "PermissionError", "JSONDecodeError", "YAMLDecodeError",
     "EncodeError", "WriteFailure"}

\* C15 (as claimed): every exception a load or dump raises is of a kind of the
\* taxonomy and its message holds the target path and the underlying cause.
C15_OnlyTaxonomyKinds ==
    cres.exc # "none" =>
        /\ cres.exc \in TaxonomyKinds
        /\ \E i \in DOMAIN cres.msg : cres.msg[i] = FilePath

\* the last call was a dump_json that returned
DumpedJson == cres.op = "dump" /\ cres.fmt = "json" /\ cres.exc = "none"
\* nesting level of the token at position i: the brackets opened before it and
\* not closed up to and including it
Level(text, i) ==
    Cardinality({j \in 1..(i - 1) : text[j] \in Opens})
    - Cardinality({j \in 1..i : text[j] \in Closes})
\* the token at position i opens, or closes, a container that has members
OpensMembers(text, i) == text[i] \in Opens /\ i < Len(text) /\ text[i + 1] \notin Closes
ClosesMembers(text, i) == text[i] \in Closes /\ i > 1 /\ text[i - 1] \notin Opens
\* the text breaks the line after position i and indents the next token by n
BreaksTo(text, i, n) ==
    /\ i < Len(text) /\ text[i + 1] = Newline
    /\ IF n = 0 THEN TRUE ELSE i + 1 < Len(text) /\ text[i + 2] = Spaces(n)
\* the pretty layout with n spaces per nesting level: the line breaks fall
\* after every comma, after the opening and before the closing bracket of
\* every container with members, and nowhere else; every line is indented by
\* n spaces per level; the only other whitespace is one space after a colon
PrettyLayout(text, n) ==
    /\ \A i \in DOMAIN text :
         /\ (text[i] = Punct(",") \/ OpensMembers(text, i)) =>
                BreaksTo(text, i, n * (Level(text, i) + (IF text[i] \in Opens THEN 1 ELSE 0)))
         /\ ClosesMembers(text, i) =>
                \/ text[i - 1] = Newline /\ Level(text, i) = 0
                \/ /\ text[i - 1] = Spaces(n * Level(text, i)) /\ i > 2
                   /\ text[i - 2] = Newline
         /\ text[i] = Newline =>
                i > 1 /\ (text[i - 1] = Punct(",") \/ OpensMembers(text, i - 1)
                          \/ (i < Len(text) /\ text[i + 1] \in Closes)
                          \/ (i + 1 < Len(text) /\ text[i + 2] \in Closes))
         /\ text[i].k = "sp" =>
                i > 1 /\ \/ text[i - 1] = Newline
                         \/ text[i - 1] = Punct(":") /\ text[i].n = 1
         /\ text[i] = Punct(":") => i < Len(text) /\ text[i + 1] = Spaces(1)

C17_DefaultIsCompact ==
    (DumpedJson /\ ~cres.given) =>
        /\ cfile.text = Significant(cfile.text)
        /\ cin = ABC =>
               cfile.text = <<Punct("{"), Quoted("a"), Punct(":"), Bare("1"), Punct(","),
                              Quoted("b"), Punct(":"), Bare("2"), Punct(","),
                              Quoted("c"), Punct(":"), Bare("3"), Punct("}")>>

\* C18 (as claimed): dump_json(v) followed by load_json() returns a value equal
\* to v, and likewise dump_yaml and load_yaml, for every v built from
\* integers, floats, booleans, null, strings, lists and string-keyed dicts;
\* booleans and null come back as booleans and null.
C18_RoundTrip ==
    (Loaded /\ ~cres.typed /\ DumpedFile) =>
        /\ cres.exc = "none"
        /\ cres.val = cin

(* ------------------ plain byte writes and reads (SpecBytes) ------------ *)
\* One caller writes a buffer, with write_bytes_async (pathlib's write_bytes in
\* a worker thread: the file is opened 'wb' and written in place) or with
\* atomic_write(mode) and one f.write(b), and then reads the file back. The
\* write may fail part-way, and another reader may read the path at any moment.
Buffers == SeqsUpTo({0, 1}, MaxLen)
WriteWays == {"write_bytes_async", "atomic_write"}
\* the binary modes a caller passes to atomic_write to write
AtomicModes == {"wb", "ab", "xb"}

InitBytes ==
    /\ WriterIdle
    /\ AsyncIdle
    /\ CodecIdle
    /\ FilesIdle
    /\ bfile \in {Absent, Content(OldContent)}
    /\ bold = bfile
    /\ btmp = Absent
    /\ bpc = "start"
    /\ bhow \in WriteWays
    /\ bmode \in IF bhow = "atomic_write" THEN AtomicModes ELSE {"wb"}
    /\ bbuf \in Buffers
    /\ bpos = 0
    /\ bgot = NotRead

\* self.parent.mkdir(parents=True, exist_ok=True)
BMkdir ==
    /\ bpc = "start"
    /\ bpc' = "open"
    /\ UNCHANGED <<bfile, btmp, bhow, bbuf, bpos, bgot, bmode, bold, wvars, rvars, avars, cvars, fvars>>

\* mutant: the file is opened without truncation
KeptOnOpen(old) == old
\* open(self, "wb") creates the file or truncates it
TruncatedOnOpen(old) == <<>>
\* mutant: in append mode the temporary file starts as a copy of the target
SeededTemp(m, old) == IF m = "ab" THEN old ELSE <<>>
\* NamedTemporaryFile(mode=mode, ...) makes a new, empty file whatever the mode
FreshTemp(m, old) == <<>>
\* write_bytes opens the path itself; atomic_write creates its temporary file
BOpen ==
    /\ bpc = "open"
    /\ IF bhow = "atomic_write"
         THEN btmp' = Content(FreshTemp(bmode, bfile.bytes)) /\ bfile' = bfile
         ELSE bfile' = Content(TruncatedOnOpen(bfile.bytes)) /\ btmp' = btmp
    /\ bpc' = "write"
    /\ UNCHANGED <<bhow, bbuf, bpos, bgot, bmode, bold, wvars, rvars, avars, cvars, fvars>>

\* the bytes of a file after byte b is written at offset pos
WriteAt(bytes, pos, b) ==
    IF pos < Len(bytes) THEN [bytes EXCEPT ![pos + 1] = b] ELSE Append(bytes, b)
\* the next byte of the buffer reaches the open file, at the stream's position
\* or, in append mode, at the end of the file
BWrite ==
    /\ bpc = "write" /\ bpos < Len(bbuf)
    /\ IF bhow = "atomic_write"
         THEN /\ btmp' = Content(WriteAt(btmp.bytes,
                                         IF bmode = "ab" THEN Len(btmp.bytes) ELSE bpos,
                                         bbuf[bpos + 1]))
              /\ bfile' = bfile
         ELSE bfile' = Content(WriteAt(bfile.bytes, bpos, bbuf[bpos + 1])) /\ btmp' = btmp
    /\ bpos' = bpos + 1
    /\ UNCHANGED <<bpc, bhow, bbuf, bgot, bmode, bold, wvars, rvars, avars, cvars, fvars>>

\* the file is closed once the whole buffer is written
BClose ==
    /\ bpc = "write" /\ bpos = Len(bbuf)
    /\ bpc' = IF bhow = "atomic_write" THEN "replace" ELSE "written"
    /\ UNCHANGED <<bfile, btmp, bhow, bbuf, bpos, bgot, bmode, bold, wvars, rvars, avars, cvars, fvars>>

\* tmp_path.replace(self)
BReplace ==
    /\ bpc = "replace"
    /\ bfile' = btmp
    /\ btmp' = Absent
    /\ bpc' = "written"
    /\ UNCHANGED <<bhow, bbuf, bpos, bgot, bmode, bold, wvars, rvars, avars, cvars, fvars>>

\* mutant: a failed write puts the old file back
RolledBack(file, old) == old
\* the path after a write to it failed: nothing undoes the bytes written
LeftAsIs(file, old) == file
\* a write raises (disk full, an I/O error) before the whole buffer is
\* written: write_bytes just propagates it, atomic_write's clean-up unlinks
\* the temporary file
BFail ==
    /\ bpc = "write"
    /\ IF bhow = "atomic_write"
         THEN btmp' = Absent /\ bfile' = bfile
         ELSE bfile' = LeftAsIs(bfile, bold) /\ btmp' = btmp
    /\ bpc' = "failed"
    /\ UNCHANGED <<bhow, bbuf, bpos, bgot, bmode, bold, wvars, rvars, avars, cvars, fvars>>

\* another reader reads the path while the write is under way or after it failed
BPeek ==
    /\ bpc \in {"open", "write", "replace", "failed"}
    /\ bgot' = bfile
    /\ UNCHANGED <<bfile, btmp, bpc, bhow, bbuf, bpos, bmode, bold, wvars, rvars, avars, cvars, fvars>>

\* read_bytes(), or read_bytes_async() (asyncio.to_thread(self.read_bytes))
BRead ==
    /\ bpc = "written"
    /\ bgot' = bfile
    /\ bpc' \in {"read_bytes", "read_bytes_async"}
    /\ UNCHANGED <<bfile, btmp, bhow, bbuf, bpos, bmode, bold, wvars, rvars, avars, cvars, fvars>>

NextBytes == BMkdir \/ BOpen \/ BWrite \/ BClose \/ BReplace \/ BFail \/ BPeek \/ BRead

SpecBytes == InitBytes /\ [][NextBytes]_vars

\* C19: for every byte buffer b, the empty one included, writing b with
\* write_bytes_async, or with atomic_write(mode='wb') and one write of b, and
\* then reading the file with read_bytes or read_bytes_async returns exactly b.
C19_BytesRoundTrip ==
    bpc \in {"read_bytes", "read_bytes_async"} => bgot = Content(bbuf)

\* C19 witness: a buffer shorter than the old content was written in place
\* and read back through read_bytes_async.
C19_Witness ==
    /\ bpc = "read_bytes_async" /\ bhow = "write_bytes_async"
    /\ Len(bbuf) < Len(OldContent)
    /\ bgot = Content(bbuf)

(* --------------------------- claim C20 (Spec) -------------------------- *)
\* C20: every temporary file of an atomic write lies in the directory of its
\* target and is named '.<target-file-name>.<suffix>', so the rename stays
\* within one directory and the temporary name is never the target's name.
C20_TempBesideTarget ==
    \A w \in Writers :
        tmp_path[w] # NoPath =>
            /\ DirOf(tmp_path[w]) = DirOf(Target)
            /\ \E k \in TmpNames :
                 NameOf(tmp_path[w]) = <<".">> \o NameOf(Target) \o <<".", ToString(k)>>
            /\ NameOf(tmp_path[w]) # NameOf(Target)

\* C20 witness: one writer is about to rename its temporary file while the
\* other holds a temporary file under another name.
C20_Witness ==
    \E w, v \in Writers :
        /\ pc[w] = "replace" /\ tmp_path[w] # NoPath
        /\ pc[v] \in {"write", "body"} /\ tmp_path[v] \notin {NoPath, tmp_path[w]}

(* --------------------------- claim C21 (Spec) -------------------------- *)
\* the order of the steps of one call; the handlers come after every step
StepRank(s) ==
    CASE s = "idle" -> 0
      [] s = "mkdir" -> 1
      [] s = "create" -> 2
      [] s \in {"write", "body"} -> 3
      [] s \in {"fsync", "flush"} -> 4
      [] s = "close" -> 5
      [] s = "replace" -> 6
      [] s = "done" -> 7
      [] s = "cleanup" -> 8
      [] s = "raised" -> 9

C24_OriginalFailureSurvives ==
    [][\A w \in Writers :
          (pc[w] = "cleanup" /\ pc'[w] = "raised" /\ rm'[w] = "failed")
          => /\ err'[w] = err[w]
             /\ err[w].at \in FaultSteps]_vars

\* C24 witness: a write failed while writing, the deletion of its temporary
\* file failed as well (the file is still there), and the call raised the
\* write's failure.
C24_Witness ==
    \E w \in Writers :
        /\ pc[w] = "raised" /\ rm[w] = "failed" /\ ~TempGone(w)
        /\ err[w] = [at |-> "write", kind |-> "Exception"]

C27_FailureLeavesOnlyParent ==
    \A w \in Writers :
        (pc[w] = "raised" /\ err[w].at \in FaultSteps \ {"mkdir"})
        => /\ parent
           /\ dir[Target] # w
           /\ (rm[w] # "failed" => TempGone(w))

(* ----------------------- claim C28 (SpecAsyncFair) --------------------- *)
\* C28: when a path of read_many_async names no file, the call never returns
\* a list: once a read has failed the call has raised exactly that failure,
\* for good; the other reads are not cancelled by it, and those not yet
\* finished still run to completion.
C28_FailedReadFailsBatch ==
    /\ [](batch /\ (\E i \in DOMAIN ops : afile[ops[i].path] = Missing)
            => gstate # "returned")
    /\ [](gstate = "raised"
            => gout = <<NotFound>> /\ \E i \in DOMAIN ops : got[i] = NotFound)
    /\ [][gstate = "raised"
            => /\ gstate' = "raised" /\ gout' = gout
               /\ \A i \in Tasks :
                    /\ (work[i] # "dropped" => work'[i] # "dropped")
                    /\ (wait[i] # "cancelled" => wait'[i] # "cancelled")]_vars
    /\ \A i \in Tasks :
         (gstate = "raised" /\ work[i] \in {"new", "queued", "running"})
            ~> (work[i] = "finished")

\* C28 witness: read_many_async raised FileNotFoundError before any read had
\* delivered a text, and another read has since completed and handed over its
\* text, which the call does not return.
C28_Witness ==
    /\ batch /\ gstate = "raised" /\ nfinished = 0
    /\ \E j \in DOMAIN ops :
         wait[j] = "resolved" /\ work[j] = "finished" /\ got[j] = TextOf("b")

(* ---------------------- claims C26, C30 (SpecBytes) -------------------- *)
\* the first n bytes of the buffer
Written(n) == Content(SubSeq(bbuf, 1, n))

\* C26: write_bytes_async writes the path in place: from the moment the file
\* is opened, during the write and after a write that failed, the path holds
\* just the bytes written so far (none at first, then a part of the buffer),
\* and a reader gets the old file or such a part; with atomic_write the path
\* holds the old file, and a reader gets it, until the rename and still after
\* a failure.
C26_InPlaceWriteIsVisible ==
    /\ (bhow = "write_bytes_async" /\ bpc \in {"write", "failed"})
         => bfile = Written(bpos)
    /\ (bhow = "atomic_write" /\ bpc \in {"open", "write", "replace", "failed"})
         => bfile = bold
    /\ (bgot # NotRead /\ bpc \in {"open", "write", "replace", "failed"})
         => IF bhow = "atomic_write"
              THEN bgot = bold
              ELSE bgot \in {bold} \cup {Written(k) : k \in 0..bpos}

\* C26 witness: an in-place write over an existing file failed after a part
\* of the buffer, and a reader then read that part, neither the old file nor
\* the buffer.
C26_Witness ==
    /\ bhow = "write_bytes_async" /\ bpc = "failed"
    /\ 0 < bpos /\ bpos < Len(bbuf)
    /\ bold = Content(OldContent)
    /\ bgot = Written(bpos) /\ bgot \notin {bold, Content(bbuf)}

\* C30: once atomic_write has committed, the path holds exactly what the body
\* wrote to the stream, whatever the mode: nothing of the old file, in mode
\* 'a' neither, and an empty file when the body wrote nothing.
C30_CommitHoldsBodyOnly ==
    (bhow = "atomic_write" /\ bpc \in {"written", "read_bytes", "read_bytes_async"})
        => bfile = Content(bbuf)

\* C30 witness: atomic_write in append mode, with a body that wrote nothing,
\* replaced an existing file by an empty one.
C30_Witness ==
    /\ bhow = "atomic_write" /\ bmode = "ab" /\ bpc = "written"
    /\ bold = Content(OldContent)
    /\ bbuf = <<>> /\ bfile = Content(<<>>)

(* -------------- appends, moves and text reads (SpecFiles) -------------- *)
\* One caller makes up to MaxCalls calls, one after the other, on self ("s"):
\* append_text, read_text, read_bytes, move, or their *_async counterparts
\* (asyncio.to_thread of the blocking method), each awaited before the next.
MaxCalls == 3

\* texts passed to append_text: "a" is U+0061, "U+0454" a Cyrillic letter
Texts == {<<>>, <<"a">>, <<"U+0454">>}
\* the encoding argument of a call, when given
Encodings == {"utf-8", "cp1252"}
\* the calls: the method, how it is called, its arguments
PlainCalls ==
    [op : {"append_text"}, via : {"sync", "async"}, enc : Encodings \cup {"omitted"},
     text : Texts, target : {""}]
    \cup [op : {"read_text"}, via : {"sync", "async"}, enc : Encodings \cup {"omitted"},
          text : {<<>>}, target : {""}]
    \cup [op : {"read_bytes"}, via : {"sync", "async"}, enc : {"omitted"},
          text : {<<>>}, target : {""}]
    \cup [op : {"move"}, via : {"sync", "async"}, enc : {"omitted"},
          text : {<<>>}, target : {"s", "t"}]

\* str.encode: "a" is one byte in both encodings, the Cyrillic letter two
\* bytes in UTF-8 and not encodable in cp1252
Encodes(text, enc) == enc = "utf-8" \/ \A i \in DOMAIN text : text[i] = "a"
RECURSIVE EncodeText(_)
EncodeText(text) ==
    IF text = <<>> THEN <<>>
    ELSE (IF Head(text) = "a" THEN <<97>> ELSE <<209, 148>>) \o EncodeText(Tail(text))
\* bytes.decode: cp1252 maps every byte to a character, UTF-8 needs the two
\* bytes of the letter together ("invalid" stands for UnicodeDecodeError)
RECURSIVE DecodeText(_, _)
DecodeText(bytes, enc) ==
    IF bytes = <<>> THEN <<>>
    ELSE IF bytes[1] < 128 THEN <<"a">> \o DecodeText(Tail(bytes), enc)
    ELSE IF enc = "cp1252"
      THEN <<IF bytes[1] = 209 THEN "U+00D1" ELSE "U+201D">> \o DecodeText(Tail(bytes), enc)
    ELSE IF Len(bytes) >= 2 /\ bytes[1] = 209 /\ bytes[2] = 148
      THEN <<"U+0454">> \o DecodeText(SubSeq(bytes, 3, Len(bytes)), enc)
    ELSE <<"invalid">>

\* the encoding a call works with: append_text, append_text_async and
\* read_text_async default to "utf-8"; read_text is pathlib's, which hands
\* io.text_encoding(None), the locale's encoding, to File.open
EffectiveEncoding(call, loc) ==
    IF call.enc # "omitted" THEN call.enc
    ELSE IF call.op = "read_text" /\ call.via = "sync" THEN loc
    ELSE "utf-8"

\* parent.mkdir(parents=True, exist_ok=True)
Mkdir_p(f, d) == [f EXCEPT ![d] = Dir]
ParentOf(p) == IF p = "s" THEN "s.parent" ELSE "t.parent"
\* what a call does: the filesystem after it, the exception raised ("none":
\* it returned) and the value returned
Did(f, exc, ret) == [fs |-> f, exc |-> exc, ret |-> ret]
None == Ret("None", <<>>, <<>>)

\* mutant: the file is opened with mode "w"
OpenTruncating(old) == <<>>
\* self.open(mode="a"): the file is created when missing, its bytes are kept
\* and every write goes to their end
OpenAppend(old) == old
\* append_text: mkdir, open(mode="a", encoding=...), write(text)
AppendOutcome(f, text, enc) ==
    LET g == Mkdir_p(f, "s.parent")
        opened == OpenAppend(g["s"].bytes)
    IN  IF Encodes(text, enc)
          THEN Did([g EXCEPT !["s"] = Content(opened \o EncodeText(text))], "none", None)
          ELSE Did([g EXCEPT !["s"] = Content(opened)], "UnicodeEncodeError", None)

\* read_text (pathlib): open, read and decode the whole file
ReadTextOutcome(f, enc) ==
    LET text == DecodeText(f["s"].bytes, enc)
    IN  IF ~f["s"].exists THEN Did(f, "FileNotFoundError", None)
        ELSE IF \E i \in DOMAIN text : text[i] = "invalid"
          THEN Did(f, "UnicodeDecodeError", None)
        ELSE Did(f, "none", Ret("str", text, <<>>))

\* read_bytes (pathlib)
ReadBytesOutcome(f) ==
    IF ~f["s"].exists THEN Did(f, "FileNotFoundError", None)
    ELSE Did(f, "none", Ret("bytes", <<>>, f["s"].bytes))

\* mutant: the move leaves the source where it is
KeepSource(src) == src
\* os.rename takes the source's name away
DropSource(src) == Absent
\* move: target.parent.mkdir, shutil.move(str(self), str(target)), return
\* target. shutil.move puts the source inside a target that is a directory,
\* refusing when an entry of that name is there, and renames otherwise (a
\* rename onto the same path does nothing)
MoveOutcome(f, target) ==
    LET g == Mkdir_p(f, ParentOf(target))
        real_dst == IF g[target] = Dir THEN "t/s" ELSE target
    IN  IF g[target] = Dir /\ g[real_dst].exists THEN Did(g, "shutil.Error", None)
        ELSE IF ~g["s"].exists THEN Did(g, "FileNotFoundError", None)
        ELSE IF real_dst = "s" THEN Did(g, "none", Ret("File", <<target>>, <<>>))
        ELSE Did([g EXCEPT ![real_dst] = g["s"], !["s"] = DropSource(g["s"])],
                 "none", Ret("File", <<target>>, <<>>))

\* the blocking method with the arguments the call hands it
Blocking(f, loc, call) ==
    CASE call.op = "append_text" ->
           AppendOutcome(f, call.text, EffectiveEncoding(call, loc))
      [] call.op = "read_text" -> ReadTextOutcome(f, EffectiveEncoding(call, loc))
      [] call.op = "read_bytes" -> ReadBytesOutcome(f)
      [] call.op = "move" -> MoveOutcome(f, call.target)

InitFiles ==
    /\ WriterIdle
    /\ AsyncIdle
    /\ CodecIdle
    /\ BytesIdle
    /\ \E sparent, tparent \in BOOLEAN,
          s \in {Absent, Content(<<97>>), Content(<<209, 148>>)},
          t \in {Absent, Content(<<97, 97>>), Dir},
          ts \in {Absent, Content(<<97, 97>>)} :
         /\ (s.exists => sparent) /\ (t.exists => tparent) /\ (ts.exists => t = Dir)
         /\ fs = [p \in Places |->
                    CASE p = "s.parent" -> IF sparent THEN Dir ELSE Absent
                      [] p = "t.parent" -> IF tparent THEN Dir ELSE Absent
                      [] p = "s" -> s
                      [] p = "t" -> t
                      [] p = "t/s" -> ts]
    /\ fpre = fs
    /\ flocale \in Encodings
    /\ fcall = NoPlainCall
    /\ fbase = fs["s"]
    /\ flog = <<>>
    /\ fn = 0

\* one call, from start to return or raise; a run of append_text calls goes
\* on while each returns and nothing else touches self
Invoke(op) ==
    /\ fn < MaxCalls
    /\ \E call \in PlainCalls :
         /\ call.op = op
         /\ LET did == Blocking(fs, flocale, call)
            IN  /\ fs' = did.fs
                /\ fcall' = [op |-> op, via |-> call.via, target |-> call.target,
                             exc |-> did.exc, ret |-> did.ret]
                /\ IF op = "append_text" /\ did.exc = "none"
                     THEN flog' = Append(flog, call.text) /\ fbase' = fbase
                     ELSE IF did.fs["s"] = fs["s"]
                       THEN UNCHANGED <<flog, fbase>>
                       ELSE flog' = <<>> /\ fbase' = did.fs["s"]
    /\ fpre' = fs
    /\ fn' = fn + 1
    /\ UNCHANGED <<flocale, wvars, rvars, avars, cvars, bvars>>

AppendText == Invoke("append_text")
ReadText == Invoke("read_text")
ReadBytes == Invoke("read_bytes")
Move == Invoke("move")

NextFiles == AppendText \/ ReadText \/ ReadBytes \/ Move

SpecFiles == InitFiles /\ [][NextFiles]_vars

(* -------------------- claims C22, C23, C29 (SpecFiles) ----------------- *)
\* the texts of a log, joined in order
RECURSIVE Joined(_)
Joined(log) == IF log = <<>> THEN <<>> ELSE Head(log) \o Joined(Tail(log))

\* C22: after a run of append_text / append_text_async calls, each completed
\* before the next, the file holds what it held before the run (nothing when
\* it did not exist) followed by the appended texts in call order, and the
\* file and its parent directory exist.
C22_AppendsConcatenate ==
    flog # <<>> =>
        /\ fs["s"] = Content(fbase.bytes \o EncodeText(Joined(flog)))
        /\ fs["s.parent"] = Dir

\* C22 witness: three appends, of different texts and the last one through
\* append_text_async, made a file that did not exist, in a parent directory
\* that the last call did not have to create.
C22_Witness ==
    /\ Len(flog) = 3 /\ flog[1] # flog[2] /\ flog[2] # <<>> /\ flog[3] # <<>>
    /\ fbase = Absent
    /\ fcall.op = "append_text" /\ fcall.via = "async"
    /\ fpre["s"] = Content(EncodeText(flog[1] \o flog[2]))

\* C23 (as claimed): after a move / move_async that returned, nothing is at
\* the source path and the target path holds what the source held; a move of
\* a source that does not exist raises FileNotFoundError and leaves the target
\* as it was.
C23_MoveReplacesTarget ==
    fcall.op = "move" =>
        /\ fcall.exc = "none" =>
             /\ fs["s"] = Absent
             /\ fs[fcall.target] = fpre["s"]
        /\ ~fpre["s"].exists =>
             /\ fcall.exc = "FileNotFoundError"
             /\ fs[fcall.target] = fpre[fcall.target]

\* C23 (amended): after a move / move_async that returned, to a path other
\* than the source's that was not an existing directory, nothing is at the
\* source path and the target path holds what the source held, whatever the
\* target held; a move of a source that does not exist raises
\* FileNotFoundError (shutil.Error when the target is a directory that has an
\* entry named like the source) and leaves the target as it was.
C23_MoveToFilePath ==
    fcall.op = "move" =>
        /\ (fcall.exc = "none" /\ fcall.target # "s" /\ fpre[fcall.target] # Dir) =>
             /\ fs["s"] = Absent
             /\ fs[fcall.target] = fpre["s"]
        /\ ~fpre["s"].exists =>
             /\ fcall.exc = IF fpre[fcall.target] = Dir /\ fpre["t/s"].exists
                              THEN "shutil.Error" ELSE "FileNotFoundError"
             /\ fs[fcall.target] = fpre[fcall.target]
             /\ fs["t/s"] = fpre["t/s"]

\* C23 witness: move_async put the source's bytes over an existing file.
C23_Witness ==
    /\ fcall.op = "move" /\ fcall.via = "async" /\ fcall.exc = "none"
    /\ fcall.target = "t" /\ fpre["t"] = Content(<<97, 97>>)
    /\ fpre["s"] = Content(<<209, 148>>) /\ fs["t"] = fpre["s"] /\ fs["s"] = Absent

\* C29 (as claimed): from any state, a call through the *_async method and
\* the same call through the blocking method, with the same arguments, return
\* the same value, raise the same exception and leave the same filesystem.
C29_AsyncSameAsSync ==
    \A call \in PlainCalls :
        Blocking(fs, flocale, [call EXCEPT !.via = "async"])
            = Blocking(fs, flocale, [call EXCEPT !.via = "sync"])

=============================================================================
